---- MODULE Spec2Model ----
(***************************************************************************)
(* A model of wordle.c: the scorer check_guess, the word source            *)
(* choose_random_word and the attempt loop of main.                        *)
(*                                                                         *)
(* Characters are their ASCII codes, C strings are sequences of codes      *)
(* (without the terminating NUL), the result array is a sequence of the    *)
(* one-character strings "-", "?" and "%".                                 *)
(***************************************************************************)
EXTENDS Integers, Sequences, FiniteSets, TLC

VARIABLES
    secret_word,        \* main: char *secret_word (the string it points to)
    guess,              \* main: char guess[WORD_LENGTH + 1], as a C string
    result,             \* main: char result[WORD_LENGTH + 1]
    attempts,           \* main: int attempts
    guessed_correctly,  \* main: bool guessed_correctly
    pc,                 \* position of the program
    stdin_eof,          \* standard input has reached end of file
    fresh,              \* the scanf of the last iteration stored a new token
    event,              \* what the last step wrote on standard output
    nscored,            \* number of well-formed tokens scored so far
    chosen,             \* the word choose_random_word returned
    shown,              \* the word printed by the final message, if any
    file,               \* content of word_list.txt
    fpos,               \* read position of the FILE stream
    word,               \* choose_random_word: word[0 .. word_count-1]
    word_count          \* choose_random_word: int word_count

vars == << secret_word, guess, result, attempts, guessed_correctly, pc,
           stdin_eof, fresh, event, nscored, chosen, shown,
           file, fpos, word, word_count >>

drv  == << attempts, guessed_correctly, stdin_eof, fresh, event, nscored,
           chosen, shown >>
fvars == << file, fpos, word, word_count >>

-----------------------------------------------------------------------------
(* Program constants                                                       *)

WORD_LENGTH == 5
MAX_ATTEMPTS == 6
MAX_WORDS == 1500

(* Bounds of the model                                                     *)

NumLetters == 2      \* letters of the scorer's alphabet: 'a' .. 'a'+NumLetters-1
MaxTokenLen == 6     \* longest token typed on standard input
MaxScored == 7       \* cap on the number of scored tokens in one run
MaxFileLen == 7      \* longest word-list file, in characters

-----------------------------------------------------------------------------
(* Characters and strings                                                  *)

NL == 10                              \* '\n'

IsUpper(c) == c \in 65..90
tolower(c) == IF IsUpper(c) THEN c + 32 ELSE c
toupper(c) == IF c \in 97..122 THEN c - 32 ELSE c

strlen(s) == Len(s)

StringsOf(chars, n) == [1..n -> chars]

Pos == 1..WORD_LENGTH

-----------------------------------------------------------------------------
(* check_guess                                                             *)

\* lines 67-70: the result array initialised to '-'
InitResult == [i \in Pos |-> "-"]

\* faulty variant: the first pass compares the characters without tolower
FirstPassCaseSensitive(secret, g) ==
    [i \in Pos |-> IF g[i] = secret[i] THEN "%" ELSE InitResult[i]]

\* lines 73-78: first pass, result[i] = '%' where the letters agree
FirstPass(secret, g) ==
    [i \in Pos |-> IF tolower(g[i]) = tolower(secret[i]) THEN "%" ELSE InitResult[i]]

\* lines 64, 76: letter_used after the first pass
FirstPassUsed(secret, g) ==
    [i \in Pos |-> FirstPass(secret, g)[i] = "%"]

RECURSIVE FirstUnusedFrom(_, _, _, _)
\* lines 83-89: the inner loop from index j on; 0 when it finds nothing
FirstUnusedFrom(secret, c, letter_used, j) ==
    IF j > WORD_LENGTH THEN 0
    ELSE IF ~letter_used[j] /\ tolower(c) = tolower(secret[j]) THEN j
    ELSE FirstUnusedFrom(secret, c, letter_used, j + 1)

\* faulty variant: the inner loop looks at the used positions instead of the unused ones
FirstUnusedNegated(secret, c, letter_used) ==
    FirstUnusedFrom(secret, c, [j \in Pos |-> ~letter_used[j]], 1)

\* lines 83-89: the inner loop, for (int j = 0; j < WORD_LENGTH; j++)
FirstUnused(secret, c, letter_used) ==
    FirstUnusedFrom(secret, c, letter_used, 1)

\* faulty variant: a misplaced match does not set letter_used[j]
MarkUsedForgotten(letter_used, j) == letter_used

\* line 86: letter_used[j] = true
MarkUsed(letter_used, j) == [letter_used EXCEPT ![j] = TRUE]

RECURSIVE SecondPass(_, _, _, _, _)
\* lines 81-91: second pass from index i on
SecondPass(secret, g, res, letter_used, i) ==
    IF i > WORD_LENGTH THEN res
    ELSE IF res[i] # "%"
         THEN LET j == FirstUnused(secret, g[i], letter_used)
              IN  IF j # 0
                  THEN SecondPass(secret, g, [res EXCEPT ![i] = "?"],
                                  MarkUsed(letter_used, j), i + 1)
                  ELSE SecondPass(secret, g, res, letter_used, i + 1)
         ELSE SecondPass(secret, g, res, letter_used, i + 1)

\* lines 63-92: check_guess(secret, guess, result), the result it leaves
check_guess(secret, g) ==
    SecondPass(secret, g, FirstPass(secret, g), FirstPassUsed(secret, g), 1)

AllCorrect == [i \in Pos |-> "%"]

-----------------------------------------------------------------------------
(* The scorer on its own: every pair of words of a small alphabet, and the *)
(* pairs the scenarios name.                                               *)

\* 'a', 'b', ...
LowerLetters == 97..(96 + NumLetters)

ToUpperWord(w) == [i \in DOMAIN w |-> toupper(w[i])]

ScoreSecrets ==
    StringsOf(LowerLetters, WORD_LENGTH)
      \cup { ToUpperWord(w) : w \in StringsOf(LowerLetters, WORD_LENGTH) }

\* guesses may hold the capital 'A' as well
ScoreGuesses == StringsOf(LowerLetters \cup {65}, WORD_LENGTH)

CRANE == << 67, 82, 65, 78, 69 >>
CANOE == << 67, 65, 78, 79, 69 >>
CRATE == << 67, 82, 65, 84, 69 >>

Scenarios == { << CRANE, CANOE >>, << CRANE, CRATE >> }

InitScore ==
    /\ \/ secret_word \in ScoreSecrets /\ guess \in ScoreGuesses
       \/ \E p \in Scenarios : secret_word = p[1] /\ guess = p[2]
    /\ result = << >>
    /\ pc = "call_check_guess"
    /\ attempts = 0
    /\ guessed_correctly = FALSE
    /\ stdin_eof = FALSE
    /\ fresh = FALSE
    /\ event = "none"
    /\ nscored = 0
    /\ chosen = << >>
    /\ shown = << >>
    /\ file = << >>
    /\ fpos = 0
    /\ word = << >>
    /\ word_count = 0

\* line 168 in isolation: one call of check_guess
CallCheckGuess ==
    /\ pc = "call_check_guess"
    /\ result' = check_guess(secret_word, guess)
    /\ pc' = "check_guess_returned"
    /\ UNCHANGED << secret_word, guess >>
    /\ UNCHANGED drv
    /\ UNCHANGED fvars

NextScore == CallCheckGuess

SpecScore == InitScore /\ [][NextScore]_vars

-----------------------------------------------------------------------------
(* Properties of the scorer                                                *)

Count(res, mark) == Cardinality({ i \in Pos : res[i] = mark })

ExactMatches(secret, g) ==
    Cardinality({ i \in Pos : tolower(g[i]) = tolower(secret[i]) })

EqualIgnoringCase(secret, g) ==
    /\ Len(secret) = Len(g)
    /\ \A i \in 1..Len(g) : tolower(g[i]) = tolower(secret[i])

Occurrences(w, c) == Cardinality({ i \in DOMAIN w : tolower(w[i]) = c })

Min(a, b) == IF a < b THEN a ELSE b

RECURSIVE SumOver(_, _, _)
SumOver(S, secret, g) ==
    IF S = {} THEN 0
    ELSE LET c == CHOOSE x \in S : TRUE
         IN  Min(Occurrences(secret, c), Occurrences(g, c))
               + SumOver(S \ {c}, secret, g)

MultisetOverlap(secret, g) ==
    SumOver({ tolower(g[i]) : i \in DOMAIN g }, secret, g)

Returned == pc = "check_guess_returned"

\* C1 (as amended): with secret "CRANE" and guess "CANOE" check_guess leaves
\* "%??-%": C and E in place, A and N present but misplaced, O absent.
C1_CraneCanoeAmended ==
    (Returned /\ secret_word = CRANE /\ guess = CANOE)
        => result = << "%", "?", "?", "-", "%" >>

\* C1 (as stated): with secret "CRANE" and guess "CANOE" the result is "%?--%".
C1_CraneCanoeOriginal ==
    (Returned /\ secret_word = CRANE /\ guess = CANOE)
        => result = << "%", "?", "-", "-", "%" >>

C1_Witness == Returned /\ secret_word = CRANE /\ guess = CANOE

\* C6: the number of '%' entries equals the number of positions where guess
\* and secret hold the same letter ignoring case, and the result is all '%'
\* exactly when the guess equals the secret ignoring case.
C6_CorrectCountIsExactMatches ==
    Returned =>
        /\ Count(result, "%") = ExactMatches(secret_word, guess)
        /\ (result = AllCorrect) <=> EqualIgnoringCase(secret_word, guess)

\* a mixed-case guess scored against a secret it partly matches only by case
C6_Witness ==
    /\ Returned
    /\ \E i \in Pos : guess[i] # secret_word[i] /\ result[i] = "%"
    /\ \E i \in Pos : result[i] # "%"

\* C7: the number of '%' plus '?' entries never exceeds the multiset overlap
\* of guess and secret (per letter, the smaller of its two occurrence counts).
C7_NoDoubleCredit ==
    Returned =>
        Count(result, "%") + Count(result, "?") <= MultisetOverlap(secret_word, guess)

\* a guess that repeats a letter more often than the secret holds it
C7_Witness ==
    /\ Returned
    /\ \E c \in LowerLetters :
          /\ Occurrences(guess, c) > Occurrences(secret_word, c)
          /\ Occurrences(secret_word, c) > 0
          /\ \E i \in Pos : tolower(guess[i]) = c /\ result[i] = "-"
          /\ \E i \in Pos : tolower(guess[i]) = c /\ result[i] = "?"

-----------------------------------------------------------------------------
(* choose_random_word                                                      *)

NoFile == << 0 >>                      \* fopen returns NULL

FileChars == LowerLetters \cup {NL}

Files == UNION { StringsOf(FileChars, n) : n \in 0..MaxFileLen }

Rest(f, p) == SubSeq(f, p + 1, Len(f))

\* strcspn(s, "\n"): the length of the prefix of s that holds no newline
strcspn_nl(s) ==
    IF \E i \in 1..Len(s) : s[i] = NL
    THEN (CHOOSE i \in 1..Len(s) : s[i] = NL /\ \A k \in 1..(i - 1) : s[k] # NL) - 1
    ELSE Len(s)

\* line 105: fgets(word[word_count], sizeof(word[word_count]), file) stores at
\* most WORD_LENGTH characters and stops after a newline
fgets(f, p) ==
    LET r == Rest(f, p)
        k == Min(WORD_LENGTH, Len(r))
        c == SubSeq(r, 1, k)
        n == strcspn_nl(c)
    IN  IF n < k THEN SubSeq(c, 1, n + 1) ELSE c

\* line 107: word[word_count][strcspn(word[word_count], "\n")] = '\0'
strip_newline(s) == SubSeq(s, 1, strcspn_nl(s))

\* line 105, 112: the while loop is over
ReadingDone == fpos = Len(file) \/ word_count >= MAX_WORDS

InitFile ==
    /\ file \in Files \cup {NoFile}
    /\ fpos = 0
    /\ word = << >>
    /\ word_count = 0
    /\ pc = "fopen"
    /\ secret_word = << >>
    /\ guess = << >>
    /\ result = << >>
    /\ attempts = 0
    /\ guessed_correctly = FALSE
    /\ stdin_eof = FALSE
    /\ fresh = FALSE
    /\ event = "none"
    /\ nscored = 0
    /\ chosen = << >>
    /\ shown = << >>

\* lines 95-99: fopen fails
FopenFailed ==
    /\ pc = "fopen"
    /\ file = NoFile
    /\ pc' = "exit_failure"
    /\ event' = "perror"
    /\ UNCHANGED << secret_word, guess, result, attempts, guessed_correctly,
                    stdin_eof, fresh, nscored, chosen, shown >>
    /\ UNCHANGED fvars

\* line 95: fopen succeeds
FopenOk ==
    /\ pc = "fopen"
    /\ file # NoFile
    /\ pc' = "read_words"
    /\ UNCHANGED << secret_word, guess, result >>
    /\ UNCHANGED drv
    /\ UNCHANGED fvars

\* lines 105-114: one iteration of the reading loop
ReadWord ==
    /\ pc = "read_words"
    /\ ~ReadingDone
    /\ LET buf == fgets(file, fpos)
           w   == strip_newline(buf)
       IN  /\ fpos' = fpos + Len(buf)
           /\ IF strlen(w) = WORD_LENGTH
              THEN /\ word' = Append(word, w)
                   /\ word_count' = word_count + 1
              ELSE UNCHANGED << word, word_count >>
    /\ UNCHANGED << secret_word, guess, result, pc, file >>
    /\ UNCHANGED drv

\* lines 116-121: no candidate was kept
NoValidWords ==
    /\ pc = "read_words"
    /\ ReadingDone
    /\ word_count = 0
    /\ pc' = "exit_failure"
    /\ event' = "no_valid_words"
    /\ UNCHANGED << secret_word, guess, result, attempts, guessed_correctly,
                    stdin_eof, fresh, nscored, chosen, shown >>
    /\ UNCHANGED fvars

\* lines 116-127: rand() % word_count picks the secret
ChooseWord ==
    /\ pc = "read_words"
    /\ ReadingDone
    /\ word_count > 0
    /\ \E random_index \in 0..(word_count - 1) :
          secret_word' = word[random_index + 1]
    /\ pc' = "word_chosen"
    /\ UNCHANGED << guess, result >>
    /\ UNCHANGED drv
    /\ UNCHANGED fvars

NextFile ==
    \/ FopenFailed
    \/ FopenOk
    \/ ReadWord
    \/ NoValidWords
    \/ ChooseWord

SpecFile == InitFile /\ [][NextFile]_vars

-----------------------------------------------------------------------------
(* Properties of the word source                                           *)

RECURSIVE Lines(_)
\* the lines of a text: the pieces between newlines, an unterminated last
\* piece included
Lines(f) ==
    IF f = << >> THEN << >>
    ELSE LET n == strcspn_nl(f)
         IN  << SubSeq(f, 1, n) >> \o Lines(SubSeq(f, n + 2, Len(f)))

IsWordLength(l) == Len(l) = WORD_LENGTH

Range(s) == { s[i] : i \in DOMAIN s }

\* C8: the candidates kept are exactly the lines of length WORD_LENGTH, and
\* the secret returned is one complete line of the file.
C8_CandidatesAreWholeLines ==
    /\ (pc \in {"word_chosen", "exit_failure"} /\ file # NoFile)
          => word = SelectSeq(Lines(file), IsWordLength)
    /\ pc = "word_chosen" => secret_word \in Range(Lines(file))

-----------------------------------------------------------------------------
(* main: the attempt loop                                                  *)

\* the secrets of the runs: two upper-case entries of a word list
DriverSecrets == { << 65, 66, 65, 66, 65 >>, << 66, 66, 65, 65, 65 >> }

ToLowerWord(w) == [i \in DOMAIN w |-> tolower(w[i])]

\* the first n letters of w w w ...
Repeat(w, n) == [i \in 1..n |-> w[((i - 1) % Len(w)) + 1]]

\* what scanf("%s") can store: non-empty tokens of up to MaxTokenLen letters,
\* here the lower-case spellings of the secrets, cut short or typed on
Tokens == { Repeat(ToLowerWord(w), n) : w \in DriverSecrets, n \in 1..MaxTokenLen }

Uninit == << 0 - 1 >>                  \* guess before the first scanf stores into it

\* values a token written past the end of guess can leave in attempts:
\* its terminating NUL, or one of its letters followed by the NUL
ClobberInts == { 0, 65 }

InitMain ==
    /\ secret_word \in DriverSecrets
    /\ chosen = secret_word
    /\ guess = Uninit
    /\ result = << >>
    /\ attempts = 0
    /\ guessed_correctly = FALSE
    /\ pc = "loop"
    /\ stdin_eof = FALSE
    /\ fresh = FALSE
    /\ event = "banner"
    /\ nscored = 0
    /\ shown = << >>
    /\ file = << >>
    /\ fpos = 0
    /\ word = << >>
    /\ word_count = 0

\* line 158: while (attempts < MAX_ATTEMPTS && !guessed_correctly)
LoopCond == attempts < MAX_ATTEMPTS /\ ~guessed_correctly

\* lines 163-176: the rest of an iteration once the buffer holds the string g
ProcessGuess(g) ==
    IF strlen(g) # WORD_LENGTH
    THEN /\ event' = "reprompt"
         /\ UNCHANGED << result, attempts, guessed_correctly >>
    ELSE /\ result' = check_guess(secret_word, g)
         /\ IF result' = AllCorrect
            THEN /\ guessed_correctly' = TRUE
                 /\ event' = "congratulations"
                 /\ UNCHANGED attempts
            ELSE /\ attempts' = attempts + 1
                 /\ event' = "result"
                 /\ UNCHANGED guessed_correctly

\* lines 158-166: an iteration whose token is shorter than WORD_LENGTH
SubmitShort(tok) ==
    /\ pc = "loop"
    /\ LoopCond
    /\ ~stdin_eof
    /\ Len(tok) < WORD_LENGTH
    /\ guess' = tok
    /\ fresh' = TRUE
    /\ ProcessGuess(tok)
    /\ UNCHANGED << secret_word, pc, stdin_eof, nscored, chosen, shown >>
    /\ UNCHANGED fvars

\* lines 158-177: an iteration whose token has WORD_LENGTH letters
SubmitWellFormed(tok) ==
    /\ pc = "loop"
    /\ LoopCond
    /\ ~stdin_eof
    /\ Len(tok) = WORD_LENGTH
    /\ nscored < MaxScored
    /\ guess' = tok
    /\ fresh' = TRUE
    /\ nscored' = nscored + 1
    /\ ProcessGuess(tok)
    /\ UNCHANGED << secret_word, pc, stdin_eof, chosen, shown >>
    /\ UNCHANGED fvars

\* lines 158-166: an iteration whose token is longer than WORD_LENGTH.
\* scanf stores Len(tok) + 1 bytes into the 6 bytes of guess: the bytes
\* past the array land on whatever the build placed there.  The outcomes
\* are a crash, or any of secret_word, attempts and guessed_correctly
\* overwritten (or none of them, when the bytes land on padding or result);
\* an overwritten secret_word points at other bytes, here another word.
\* The string at guess is then the whole token and line 163 rejects it.
SubmitTooLong(tok) ==
    /\ pc = "loop"
    /\ LoopCond
    /\ ~stdin_eof
    /\ Len(tok) > WORD_LENGTH
    /\ \/ /\ pc' = "crashed"
          /\ event' = "crash"
          /\ UNCHANGED << secret_word, guess, result, attempts,
                          guessed_correctly, fresh >>
       \/ /\ guess' = tok
          /\ fresh' = TRUE
          /\ secret_word' \in {secret_word} \cup DriverSecrets
          /\ attempts' \in {attempts} \cup ClobberInts
          /\ guessed_correctly' \in BOOLEAN
          /\ event' = "reprompt"
          /\ UNCHANGED << result, pc >>
    /\ UNCHANGED << stdin_eof, nscored, chosen, shown >>
    /\ UNCHANGED fvars

Submit(tok) == SubmitShort(tok) \/ SubmitWellFormed(tok) \/ SubmitTooLong(tok)

\* lines 158-177: an iteration whose scanf meets end of file.  The return
\* value of scanf is not looked at and guess keeps what it held: the
\* previous token, or indeterminate bytes when nothing was stored yet.
ScanfEOF ==
    /\ pc = "loop"
    /\ LoopCond
    /\ stdin_eof' = TRUE
    /\ fresh' = FALSE
    /\ \E g \in (IF guess = Uninit THEN Tokens ELSE {guess}) :
          /\ guess' = g
          /\ ProcessGuess(g)
    /\ UNCHANGED << secret_word, pc, nscored, chosen, shown >>
    /\ UNCHANGED fvars

\* lines 179-185: after the loop
ExitLoop ==
    /\ pc = "loop"
    /\ ~LoopCond
    /\ IF ~guessed_correctly
       THEN event' = "reveal" /\ shown' = secret_word
       ELSE UNCHANGED << event, shown >>
    /\ pc' = "done"
    /\ UNCHANGED << secret_word, guess, result, attempts, guessed_correctly,
                    stdin_eof, fresh, nscored, chosen >>
    /\ UNCHANGED fvars

NextMain ==
    \/ \E tok \in Tokens : SubmitShort(tok)
    \/ \E tok \in Tokens : SubmitWellFormed(tok)
    \/ \E tok \in Tokens : SubmitTooLong(tok)
    \/ ScanfEOF
    \/ ExitLoop

Spec == InitMain /\ [][NextMain]_vars

\* the session of the specification, read off the variables of main
SessionState ==
    IF guessed_correctly THEN "Won"
    ELSE IF attempts >= MAX_ATTEMPTS THEN "Exhausted"
    ELSE "InProgress"

-----------------------------------------------------------------------------
(* Properties of the attempt loop                                          *)

Scored == event \in {"result", "congratulations"}

\* C2: a submitted guess whose length differs from WORD_LENGTH, shorter or
\* longer, leaves the attempt counter, the completion flag and the secret
\* unchanged, is not scored, and the driver prompts again.
C2_MalformedGuessChangesNothing ==
    [][ \A tok \in Tokens :
          (Len(tok) # WORD_LENGTH /\ Submit(tok))
             => /\ attempts' = attempts
                /\ guessed_correctly' = guessed_correctly
                /\ secret_word' = secret_word
                /\ result' = result
                /\ nscored' = nscored
                /\ event' = "reprompt"
                /\ pc' = "loop" ]_vars

\* C3: a well-formed guess that is not all correct adds exactly 1 to the
\* attempt counter and the session is Exhausted exactly when the counter
\* reaches MAX_ATTEMPTS; the counter stays within 0..MAX_ATTEMPTS and the
\* session is Exhausted only after MAX_ATTEMPTS well-formed guesses.
C3_AttemptCounting ==
    [][ /\ \A tok \in Tokens :
             (SubmitWellFormed(tok) /\ result' # AllCorrect)
                => /\ attempts' = attempts + 1
                   /\ (SessionState' = "Exhausted") <=> (attempts' = MAX_ATTEMPTS)
                   /\ (SessionState' = "InProgress") <=> (attempts' < MAX_ATTEMPTS)
        /\ attempts' \in 0..MAX_ATTEMPTS
        /\ SessionState' = "Exhausted" => nscored' = MAX_ATTEMPTS ]_vars

\* C4: a well-formed guess equal to the secret ignoring case makes the
\* session Won without touching the attempt counter, on any attempt; once
\* Won nothing more is read or scored and the loss message is not printed.
C4_WinIsTerminal ==
    [][ /\ \A tok \in Tokens :
             (SubmitWellFormed(tok) /\ EqualIgnoringCase(chosen, tok))
                => /\ guessed_correctly'
                   /\ attempts' = attempts
                   /\ SessionState' = "Won"
        /\ guessed_correctly
             => /\ guessed_correctly'
                /\ UNCHANGED << guess, result, attempts, nscored, fresh >>
                /\ event' # "reveal"
                /\ pc' = "done" ]_vars

\* C5: the secret is printed if and only if the loop ended with the attempt
\* counter at MAX_ATTEMPTS without a win, and what is printed is the secret.
C5_RevealOnlyWhenExhausted ==
    /\ (event = "reveal")
          <=> (pc = "done" /\ ~guessed_correctly /\ attempts = MAX_ATTEMPTS)
    /\ event = "reveal" => shown = chosen

\* C9: the session is Won or Exhausted after at most MAX_ATTEMPTS well-formed
\* guesses, whatever malformed guesses come in between (the run does not end
\* in any other way), and from then on no guess is read or scored.
C9_EndsWithinMaxAttempts ==
    [][ /\ nscored' <= MAX_ATTEMPTS
        /\ pc' # "crashed"
        /\ SessionState # "InProgress"
             => UNCHANGED << guess, result, attempts, nscored >> ]_vars

\* C10: a guess is scored, and the attempt counter is incremented, only in
\* an iteration whose scanf stored a new token.
C10_ScoresOnlyFreshTokens ==
    [][ (result' # result \/ attempts' = attempts + 1 \/ (Scored' /\ pc' = "loop"))
           => fresh' ]_vars

====
